---- MODULE Spec2Model ----
(***************************************************************************)
(* A model of the product-search tool: the scrape orchestrator             *)
(* (app/scraper.py), the three SQLite tables (app/database.py,             *)
(* app/db_models.py) and the history / filter / sort layer                 *)
(* (app/search_service.py).                                                *)
(*                                                                         *)
(* Conventions.  An Optional[...] value is a sequence: None is << >> and   *)
(* a present value v is <<v>>.  Prices and ratings are floats in the       *)
(* code; only their order and their truthiness matter to the operations    *)
(* modelled, so they are integers here.  A title is the sequence of its    *)
(* character codes, compared as SQLite's BINARY collation compares text.   *)
(* A timestamp is the reading of a clock that every call of                *)
(* datetime.now() advances by one; the calls in flight read it one at a    *)
(* time, in whatever order their threads come to it.                       *)
(***************************************************************************)
EXTENDS Integers, Sequences, FiniteSets, TLC

VARIABLES
  permanent,     \* rows of searchrecord (db/app.db), in rowid order
  temp_app,      \* rows of temp_app_searchrecord (db/temp_app.db)
  temp_hist,     \* rows of temp_hist_searchrecord (db/temp_hist.db)
  clock,         \* the next reading of datetime.now()
  searches,      \* the searches in flight, in the order they came, each
                 \* with the locals of scrape_amazon_products: pc (loop,
                 \* parse or save), query, max_pages, page_num,
                 \* all_products, events (its session.get and time.sleep
                 \* calls, in order), pending and page_products (the
                 \* items extract_products_from_page has yet to go through
                 \* and the products it has built) and saving (the
                 \* transaction save_and_return_products is about to run
                 \* and the readings of the clock its records have taken)
  hist,          \* the history requests in flight, in the order they came:
                 \* where each stands, and its locals
  last,          \* the call that ended last
  requests,      \* the requests the server has taken since it started
  threads        \* the two searches of the concurrent specification, each
                 \* in a thread of its own: where each stands in
                 \* save_and_return_products, and the readings of the
                 \* clock its records have taken

vars == <<permanent, temp_app, temp_hist, clock, searches, hist, last,
          requests, threads>>

tables == <<permanent, temp_app, temp_hist>>
scrape_locals == <<searches, threads>>

----------------------------------------------------------------------------
(* Bounds of the model.                                                    *)

\* max_pages is drawn from 1..MaxPages
MaxPages == 3
\* datetime.now() is read at most MaxClock times in one behaviour; a
\* product that is scraped and saved takes three readings, one for the
\* Product and one for each of its two records
MaxClock == 6
\* the tables the filter specification starts from hold at most MaxRows rows
MaxRows == 3
\* the longest text given to the text processors
MaxText == 4
\* the most products a search that runs beside another one has collected
MaxThreadProducts == 2
\* the most result items on a page given to the page parser
MaxItems == 3
\* the most requests the server takes in one behaviour
MaxRequests == 3

----------------------------------------------------------------------------
(* Optional values and Python truthiness.                                  *)

None == << >>
Some(v) == <<v>>

\* bool(x) for an Optional[float] / Optional[int]: None and 0 are falsy
truthy_num(x) == x # None /\ x[1] # 0

\* bool(x) for an Optional[str] held as Some(string): None and "" are falsy
truthy_str(x) == x # None /\ x[1] # ""

Range(s) == {s[i] : i \in 1..Len(s)}

RECURSIVE Flatten(_)
Flatten(ss) == IF ss = << >> THEN << >> ELSE Head(ss) \o Flatten(Tail(ss))

\* all sequences over S of length at most n
SeqUpTo(S, n) == UNION {[1..k -> S] : k \in 0..n}

----------------------------------------------------------------------------
(* The page parser, as far as the store and the orchestrator see it.  An   *)
(* item node is held by the six values safe_extract and the _process_*     *)
(* helpers obtain from it.                                                 *)

Title_A == <<65>>
Title_AB == <<65, 66>>
Title_B == <<66>>

Item(title, link, price, rating, review_count, image) ==
  [title |-> title, link |-> link, price |-> price, rating |-> rating,
   review_count |-> review_count, image |-> image]

\* the hrefs urlsplit rejects: a netloc with an opening bracket and no
\* closing one raises ValueError("Invalid IPv6 URL")
InvalidIPv6 == {"//["}

\* urljoin("https://www.amazon.com", link): the joined URL, None standing
\* for ValueError
urljoin(base, link) ==
  IF link \in InvalidIPv6 THEN None ELSE Some(<<base, link>>)

\* scraper.py 183: all([title, price, rating, review_count, url, image_url])
\* a variant that tests the numbers with "is not None"
valid_of_not_none(title, price, rating, review_count, url, image_url) ==
  /\ title # << >>
  /\ price # None
  /\ rating # None
  /\ review_count # None
  /\ url # << >>
  /\ truthy_str(image_url)

valid_of(title, price, rating, review_count, url, image_url) ==
  /\ title # << >>
  /\ truthy_num(price)
  /\ truthy_num(rating)
  /\ truthy_num(review_count)
  /\ url # << >>
  /\ truthy_str(image_url)

\* Product(...): the timestamp is the default factory's datetime.now()
Product(title, price, rating, review_count, product_url, image_url, valid, timestamp) ==
  [title |-> title, price |-> price, rating |-> rating,
   review_count |-> review_count, product_url |-> product_url,
   image_url |-> image_url, valid |-> valid, timestamp |-> timestamp]

\* the "if title and link" branch of the item loop
item_kept(item) == item.title # << >> /\ truthy_str(item.link)

\* urljoin raises inside the try block of the item loop
item_raises(item) == urljoin("https://www.amazon.com", item.link[1]) = None

item_product(item, now) ==
  LET url == urljoin("https://www.amazon.com", item.link[1])
  IN  Product(item.title, item.price, item.rating, item.review_count,
              url, item.image,
              valid_of(item.title, item.price, item.rating,
                       item.review_count, url[1], item.image),
              now)

\* a variant whose handler leaves the loop at the first item it skips
RECURSIVE extract_until_skipped(_, _)
extract_until_skipped(items, now) ==
  IF items = << >> THEN << >>
  ELSE IF item_kept(Head(items)) /\ ~item_raises(Head(items))
       THEN <<item_product(Head(items), now)>>
              \o extract_until_skipped(Tail(items), now + 1)
       ELSE << >>

\* the products of one page, in document order; an item without title or
\* link raises ScraperParsingError inside the loop and is skipped ("except
\* ex.ScraperParsingError ... continue"), and so is an item whose
\* processing raises anything else ("except Exception ... continue")
RECURSIVE extract_products_from_page(_, _)
extract_products_from_page(items, now) ==
  IF items = << >> THEN << >>
  ELSE IF item_kept(Head(items)) /\ ~item_raises(Head(items))
       THEN <<item_product(Head(items), now)>>
              \o extract_products_from_page(Tail(items), now + 1)
       ELSE extract_products_from_page(Tail(items), now)

----------------------------------------------------------------------------
(* The tables.                                                             *)

\* BaseSearchRecord: id is the rowid SQLite assigns, max(rowid) + 1
Record(id, q, p, timestamp) ==
  [id |-> id, query |-> q, title |-> p.title, price |-> p.price,
   rating |-> p.rating, review_count |-> p.review_count,
   product_url |-> p.product_url, image_url |-> p.image_url,
   valid |-> p.valid, timestamp |-> timestamp]

\* Product(title=record.title, ..., timestamp=record.timestamp)
record_product(r) ==
  Product(r.title, r.price, r.rating, r.review_count, r.product_url,
          r.image_url, r.valid, r.timestamp)

products_of(records) == [i \in 1..Len(records) |-> record_product(records[i])]

\* the eight columns a copy of a row shares with it, whatever its id and
\* its timestamp
content(r) ==
  [query |-> r.query, title |-> r.title, price |-> r.price,
   rating |-> r.rating, review_count |-> r.review_count,
   product_url |-> r.product_url, image_url |-> r.image_url,
   valid |-> r.valid]

DB == [permanent |-> permanent, temp_app |-> temp_app, temp_hist |-> temp_hist]

\* a line of the log: log.info("Cleared all records from ..."),
\* log.error("Error clearing ..."), log.error("No database selected ...")
Logged(line) == [ev |-> line, page |-> 0]

\* a variant that deletes from the permanent table whichever table is named
delete_session_of_permanent(db, table, fails) ==
  IF fails THEN [db |-> db, raised |-> TRUE, log |-> <<Logged("error clearing")>>]
  ELSE [db |-> [db EXCEPT !.permanent = << >>], raised |-> FALSE,
        log |-> <<Logged("cleared")>>]

\* a variant whose delete removes nothing
delete_session_keeping_rows(db, table, fails) ==
  IF fails THEN [db |-> db, raised |-> TRUE, log |-> <<Logged("error clearing")>>]
  ELSE [db |-> db, raised |-> FALSE, log |-> <<Logged("cleared")>>]

\* a variant whose handler logs the failure and does not raise again
delete_session_not_raising(db, table, fails) ==
  IF fails THEN [db |-> db, raised |-> FALSE, log |-> <<Logged("error clearing")>>]
  ELSE [db |-> [db EXCEPT ![table] = << >>], raised |-> FALSE,
        log |-> <<Logged("cleared")>>]

\* _delete_session: delete(table) and commit; on an exception roll back
\* and raise again
_delete_session(db, table, fails) ==
  IF fails
  THEN [db |-> db, raised |-> TRUE, log |-> <<Logged("error clearing")>>]
  ELSE [db |-> [db EXCEPT ![table] = << >>], raised |-> FALSE,
        log |-> <<Logged("cleared")>>]

\* clear_database(selection); the three files exist once the init_*
\* functions have run
clear_database(db, selection, fails) ==
  IF selection = "temp_hist" THEN _delete_session(db, "temp_hist", fails)
  ELSE IF selection = "temp_app" THEN _delete_session(db, "temp_app", fails)
  ELSE IF selection = "app" THEN _delete_session(db, "permanent", fails)
  ELSE [db |-> db, raised |-> FALSE, log |-> <<Logged("no database selected")>>]

LifespanFailures == {"none", "first", "second"}

\* lifespan: the init_* functions create what is missing and delete no row;
\* then clear_database("temp_app"), and clear_database("temp_app") again
lifespan_startup(db, failure) ==
  LET first == clear_database(db, "temp_app", failure = "first")
      second == clear_database(first.db, "temp_app", failure = "second")
  IN  IF first.raised
        THEN [db |-> db, raised |-> TRUE, log |-> first.log]
      ELSE IF second.raised
        THEN [db |-> first.db, raised |-> TRUE, log |-> first.log \o second.log]
      ELSE [db |-> second.db, raised |-> FALSE, log |-> first.log \o second.log]

----------------------------------------------------------------------------
(* ORDER BY.  SQLite keeps rows with equal keys in the order of its scan:  *)
(* rowid order when it sorts, and the index's order, reversed, when it     *)
(* reads ix_..._timestamp backwards.                                       *)

\* s sorted by the strict weak order Before, rows that tie kept in order
StableSort(s, Before(_, _)) ==
  LET n == Len(s)
      pos == [i \in 1..n |->
                1 + Cardinality({j \in 1..n :
                      \/ Before(s[j], s[i])
                      \/ (~Before(s[i], s[j]) /\ j < i)})]
  IN  [p \in 1..n |-> s[CHOOSE i \in 1..n : pos[i] = p]]

\* .order_by(<table>.timestamp.desc())
timestamp_desc(a, b) ==
  \/ a.timestamp > b.timestamp
  \/ (a.timestamp = b.timestamp /\ a.id > b.id)

\* select(SearchRecord).where(SearchRecord.query == query)
where_query(rows, q) == SelectSeq(rows, LAMBDA r : r.query = q)

\* the statement of search_and_copy_to_hist_temp_db, executed
select_history(rows, q) == StableSort(where_query(rows, q), timestamp_desc)

----------------------------------------------------------------------------
(* save_and_return_products and search_and_copy_to_hist_temp_db, each as   *)
(* a function of the tables, its arguments and the step that fails: none,  *)
(* or clear, perm_commit, temp_commit of the one, clear, select, copy of   *)
(* the other.                                                              *)

\* the readings of n calls of datetime.now() from the reading now on, when
\* no other call reads the clock between them
readings(now, n) == [k \in 1..n |-> now + k - 1]

\* the SearchRecord objects of the loop; each reads datetime.now(): the
\* loop builds the SearchRecord of a product, then its TempAppSearchRecord,
\* then goes on to the next product, and stamps holds its readings in the
\* order it took them
new_permanent_records(rows, products, q, stamps) ==
  [i \in 1..Len(products) |->
     Record(Len(rows) + i, q, products[i], stamps[2 * i - 1])]

\* the TempAppSearchRecord objects of the loop
new_temp_app_records(rows, products, q, stamps) ==
  [i \in 1..Len(products) |->
     Record(Len(rows) + i, q, products[i], stamps[2 * i])]

\* a variant whose handler lets a failure to clear temp_app through
save_exception_caught_but_clear(failure) == failure # "clear"

\* "except Exception as e": the handler of the try block catches whatever
\* step failed, logs it and rolls back
save_exception_caught(failure) == TRUE

\* a variant of the try block that commits temp_app before permanent
save_steps_temp_first == <<"clear", "temp_commit", "perm_commit">>

\* the transactions of the try block of save_and_return_products, in the
\* order they are committed: clear_database(selection="temp_app"),
\* permanent_session.commit(), temp_app_session.commit()
save_steps == <<"clear", "perm_commit", "temp_commit">>

\* one transaction of the try block, on the tables as it finds them; the
\* records were built with the readings stamps of the clock, and a row gets
\* its id when it is inserted
save_transaction(db, step, products, q, stamps, fails) ==
  IF step = "clear" THEN clear_database(db, "temp_app", fails)
  ELSE IF fails THEN [db |-> db, raised |-> TRUE, log |-> << >>]
  ELSE IF step = "perm_commit"
    THEN [db |-> [db EXCEPT !.permanent =
                    @ \o new_permanent_records(@, products, q, stamps)],
          raised |-> FALSE, log |-> << >>]
  ELSE [db |-> [db EXCEPT !.temp_app =
                  @ \o new_temp_app_records(@, products, q, stamps)],
        raised |-> FALSE, log |-> << >>]

\* the tables and the clock after the try block of save_and_return_products
\* when no other request writes or reads the clock between its steps, and
\* whether the block ran to its end
save_try_block(db, products, q, failure, now) ==
  LET stamps == readings(now, 2 * Len(products))
      first == save_transaction(db, save_steps[1], products, q, stamps,
                                failure = save_steps[1])
      second == save_transaction(first.db, save_steps[2], products, q, stamps,
                                 failure = save_steps[2])
      third == save_transaction(second.db, save_steps[3], products, q, stamps,
                                failure = save_steps[3])
      after == now + 2 * Len(products)
  IN  IF first.raised
        THEN [db |-> first.db, clock |-> now, saved |-> FALSE, log |-> first.log]
      ELSE IF second.raised
        THEN [db |-> second.db, clock |-> after, saved |-> FALSE,
              log |-> first.log \o second.log]
      ELSE IF third.raised
        THEN [db |-> third.db, clock |-> after, saved |-> FALSE,
              log |-> first.log \o second.log \o third.log]
      ELSE [db |-> third.db, clock |-> after, saved |-> TRUE,
            log |-> first.log \o second.log \o third.log]

\* save_and_return_products(products, q): the try block, its handler, and
\* "return all_products"
save_and_return_products(db, products, q, failure, now) ==
  LET tried == save_try_block(db, products, q, failure, now)
      raised == ~tried.saved /\ ~save_exception_caught(failure)
  IN  [db |-> tried.db, clock |-> tried.clock, saved |-> tried.saved,
       raised |-> raised, ret |-> IF raised THEN << >> ELSE products,
       log |-> tried.log]

\* TempHistSearchRecord(query=record.query, ..., timestamp=record.timestamp)
copy_records(rows, records) ==
  [i \in 1..Len(records) |->
     Record(Len(rows) + i, records[i].query, record_product(records[i]),
            records[i].timestamp)]

\* a variant of the handler that commits what was added before the failure
copy_kept(rows, copies) == rows \o copies

\* "except Exception as e: ... hist_temp_session.rollback()": the table
\* after a copy that failed is the table before the rows were added
copy_rolled_back(rows, copies) == rows

\* "raise" in the handler of the copy, and again in the outer handler
copy_failure_raised == TRUE

\* the statement executed on the permanent table: the records, or the
\* exception the outer handler logs and raises again
history_selected(db, q, fails) ==
  IF fails
  THEN [records |-> << >>, raised |-> TRUE, log |-> <<Logged("error searching")>>]
  ELSE [records |-> select_history(db.permanent, q), raised |-> FALSE,
        log |-> << >>]

\* "if records:" the copies are added to a session of temp_hist and
\* committed; the handler of a failure rolls back and raises, and the outer
\* handler raises again
history_copied(db, records, fails) ==
  LET copies == copy_records(db.temp_hist, records)
  IN  IF fails
      THEN [db |-> [db EXCEPT !.temp_hist = copy_rolled_back(@, copies)],
            ret |-> << >>, raised |-> copy_failure_raised,
            log |-> <<Logged("error copying"), Logged("error searching")>>]
      ELSE [db |-> [db EXCEPT !.temp_hist = @ \o copies],
            ret |-> products_of(records), raised |-> FALSE,
            log |-> <<Logged("copied")>>]

\* search_and_copy_to_hist_temp_db(q) when no other request writes between
\* its clear, its select and its commit
search_and_copy_to_hist_temp_db(db, q, failure) ==
  LET cleared == clear_database(db, "temp_hist", failure = "clear")
      selected == history_selected(cleared.db, q, failure = "select")
      copied == history_copied(cleared.db, selected.records, failure = "copy")
  IN  IF cleared.raised
        THEN [db |-> db, ret |-> << >>, raised |-> TRUE, log |-> cleared.log]
      ELSE IF selected.raised
        THEN [db |-> cleared.db, ret |-> << >>, raised |-> TRUE,
              log |-> cleared.log \o selected.log]
      ELSE IF selected.records = << >>
        THEN [db |-> cleared.db, ret |-> << >>, raised |-> FALSE,
              log |-> cleared.log]
      ELSE [db |-> copied.db, ret |-> copied.ret, raised |-> copied.raised,
            log |-> cleared.log \o copied.log]

----------------------------------------------------------------------------
(* The filter and sort layer: the statements filter_app_temp_products,     *)
(* filter_hist_temp_products and get_all_temp_products build, executed.    *)

\* variants of the threshold test: ">= 0", and "is not None" alone
threshold_active_from_zero(t) == t # None /\ t[1] >= 0
threshold_active_not_none(t) == t # None

\* "min_price is not None and min_price > 0", likewise the other two
threshold_active(t) == t # None /\ t[1] > 0

\* .where(<table>.price >= min_price): a NULL price compares as NULL and
\* the row is dropped
price_at_least(r, min_price) == r.price # None /\ r.price[1] >= min_price[1]
price_at_most(r, max_price) == r.price # None /\ r.price[1] <= max_price[1]
rating_at_least(r, min_rating) == r.rating # None /\ r.rating[1] >= min_rating[1]

\* the WHERE clauses the three "if" statements add to the statement
applied_predicates(min_price, max_price, min_rating) ==
  (IF threshold_active(min_price) THEN {"price >= min_price"} ELSE {})
    \cup (IF threshold_active(max_price) THEN {"price <= max_price"} ELSE {})
    \cup (IF threshold_active(min_rating) THEN {"rating >= min_rating"} ELSE {})

where_thresholds(rows, min_price, max_price, min_rating) ==
  LET applied == applied_predicates(min_price, max_price, min_rating)
      keep(r) ==
        /\ "price >= min_price" \in applied => price_at_least(r, min_price)
        /\ "price <= max_price" \in applied => price_at_most(r, max_price)
        /\ "rating >= min_rating" \in applied => rating_at_least(r, min_rating)
  IN  SelectSeq(rows, keep)

SortColumns == {"price", "rating", "review_count", "title"}

\* if sort_by not in [...]: sort_by = "price"
sort_column(sort_by) == IF sort_by \in SortColumns THEN sort_by ELSE "price"

\* text compared byte by byte (BINARY collation)
RECURSIVE text_less(_, _)
text_less(a, b) ==
  IF b = << >> THEN FALSE
  ELSE IF a = << >> THEN TRUE
  ELSE IF Head(a) # Head(b) THEN Head(a) < Head(b)
  ELSE text_less(Tail(a), Tail(b))

\* getattr(<table>, sort_by) of a row, as an Optional value
sort_key(r, column) == IF column = "title" THEN Some(r.title) ELSE r[column]

value_less(column, x, y) == IF column = "title" THEN text_less(x, y) ELSE x < y

\* a variant without nullslast(): SQLite's ascending order begins with
\* the NULLs
asc_nullsfirst(column, a, b) ==
  LET x == sort_key(a, column)
      y == sort_key(b, column)
  IN  y # None /\ (x = None \/ value_less(column, x[1], y[1]))

\* sort_attr.asc().nullslast()
asc_nullslast(column, a, b) ==
  LET x == sort_key(a, column)
      y == sort_key(b, column)
  IN  x # None /\ (y = None \/ value_less(column, x[1], y[1]))

\* sort_attr.desc(): SQLite takes NULL for the smallest value, so a
\* descending order ends with the NULLs
desc_default(column, a, b) ==
  LET x == sort_key(a, column)
      y == sort_key(b, column)
  IN  x # None /\ (y = None \/ value_less(column, y[1], x[1]))

order_by(rows, sort_by, order) ==
  LET column == sort_column(sort_by)
      before(a, b) == IF order = "asc" THEN asc_nullslast(column, a, b)
                      ELSE desc_default(column, a, b)
  IN  StableSort(rows, before)

\* .group_by(title, price): SQLite returns the first row of each group,
\* the groups in the order of (title, price), NULL first
group_less(a, b) ==
  \/ text_less(a.title, b.title)
  \/ /\ a.title = b.title
     /\ b.price # None
     /\ (a.price = None \/ a.price[1] < b.price[1])

\* a variant that groups nothing
group_by_nothing(rows) == rows

group_by_title_price(rows) ==
  LET first(i) == \A j \in 1..(i - 1) :
                     ~(rows[j].title = rows[i].title /\ rows[j].price = rows[i].price)
      firsts == SelectSeq([i \in 1..Len(rows) |-> <<i, rows[i]>>],
                          LAMBDA e : first(e[1]))
  IN  StableSort([i \in 1..Len(firsts) |-> firsts[i][2]], group_less)

\* the records filter_app_temp_products reads from temp_app
filter_app_statement(rows, a) ==
  order_by(where_thresholds(rows, a.min_price, a.max_price, a.min_rating),
           a.sort_by, a.order)

\* the records filter_hist_temp_products reads from temp_hist
filter_hist_statement(rows, a) ==
  LET kept == where_thresholds(rows, a.min_price, a.max_price, a.min_rating)
  IN  order_by(IF a.duplicate THEN group_by_title_price(kept) ELSE kept,
               a.sort_by, a.order)

\* select(table).order_by(table.timestamp.desc())
get_all_statement(rows) == StableSort(rows, timestamp_desc)

----------------------------------------------------------------------------
(* Inputs.                                                                 *)

Queries == {"q1", "q2"}

\* an item with every field, and one whose price is missing
Item_A == Item(Title_A, Some("/a"), Some(3), Some(4), Some(7), Some("a.jpg"))
Item_B == Item(Title_B, Some("/b"), None, Some(2), Some(1), Some("b.jpg"))
\* one more for the tables the filters are applied to: no rating, no count
Item_C == Item(Title_AB, Some("/c"), Some(1), None, None, Some("c.jpg"))

ScrapeItems == {Item_A, Item_B}
FilterItems == {Item_A, Item_B, Item_C}

\* what the server does for one page: a page of items, a body
\* BeautifulSoup raises on, a connection that is not made within the
\* timeout, a response that does not come within it, a refused connection,
\* a status that stays for every attempt, a redirect that leads back to the
\* same URL every time, or another failure of the request (a body that
\* breaks off or cannot be decoded)
Response(kind, status, items) == [kind |-> kind, status |-> status, items |-> items]

Responses ==
  {Response("page", 200, its) : its \in SeqUpTo(ScrapeItems, MaxClock \div 3)}
    \cup {Response("unparsable", 200, << >>),
          Response("connect timeout", 0, << >>),
          Response("read timeout", 0, << >>),
          Response("connection", 0, << >>),
          Response("status", 404, << >>),
          Response("status", 403, << >>),
          Response("status", 503, << >>),
          Response("redirects", 0, << >>),
          Response("other", 0, << >>)}

\* Retry(total=3, backoff_factor=1, status_forcelist=[500, 502, 503, 504])
status_forcelist == {500, 502, 503, 504}

\* Retry(total=3, ...): the retries after the first request
retries_total == 3

\* requests.session(): a session follows at most max_redirects redirects
max_redirects == 30

\* the requests session.get sends for a page whose outcome stays the same:
\* a status of the forcelist, a timeout and a refused connection are tried
\* again until the retries are spent; a redirect is followed until the
\* session has followed max_redirects of them
requests_sent(resp) ==
  IF \/ resp.kind \in {"connect timeout", "read timeout", "connection"}
     \/ (resp.kind = "status" /\ resp.status \in status_forcelist)
  THEN 1 + retries_total
  ELSE IF resp.kind = "redirects" THEN 1 + max_redirects
  ELSE 1

\* the exception session.get / raise_for_status end with, by the except
\* clause that catches it.  Once the retries are spent the adapter raises
\* ConnectTimeout, which is a Timeout, for a connection that timed out, and
\* ConnectionError for a response that timed out; a status of the forcelist
\* that outlasts the retries ends in RetryError and a redirect loop in
\* TooManyRedirects, which are RequestExceptions and no HTTPError
request_exception(resp) ==
  CASE resp.kind = "connect timeout" -> "Timeout"
    [] resp.kind = "read timeout" -> "ConnectionError"
    [] resp.kind = "connection" -> "ConnectionError"
    [] resp.kind = "status" /\ resp.status \in status_forcelist -> "RetryError"
    [] resp.kind = "status" -> "HTTPError"
    [] resp.kind = "redirects" -> "RequestException"
    [] resp.kind = "other" -> "RequestException"
    [] OTHER -> "none"

Error(type, status_code) == [type |-> type, status_code |-> status_code]
NoError == Error("none", 0)

\* the exception the except clauses raise for page 1
page_one_error(resp) ==
  LET exc == request_exception(resp)
  IN  CASE exc = "Timeout" -> Error("ScraperTimeoutError", 0)
        [] exc = "ConnectionError" -> Error("ScraperConnectionError", 0)
        [] exc = "HTTPError" -> Error("ScraperHTTPError", resp.status)
        [] exc \in {"RetryError", "RequestException"} -> Error("ScraperException", 0)
        [] resp.kind = "unparsable" -> Error("ScraperParsingError", 0)
        [] OTHER -> NoError

page_failed(resp) == page_one_error(resp) # NoError

\* whether session.get returned, so that the local `response` is bound to
\* the response of this page: raise_for_status and BeautifulSoup raise
\* after the assignment, session.get itself before it
response_bound(resp) == request_exception(resp) \in {"none", "HTTPError"}

Thresholds == {None, Some(-1), Some(0), Some(2)}
MaxPriceThresholds == {None, Some(0), Some(2)}
RatingThresholds == {None, Some(0), Some(3)}
SortBys == SortColumns \cup {"timestamp"}
Orders == {"asc", "desc"}

FilterArgs ==
  [min_price : Thresholds, max_price : MaxPriceThresholds,
   min_rating : RatingThresholds, sort_by : SortBys, order : Orders,
   duplicate : BOOLEAN]

\* the filter calls of the filter specification: every combination of
\* thresholds under one order, and every order without a threshold
CalledFilterArgs ==
  {a \in FilterArgs :
     \/ (a.sort_by = "price" /\ a.order = "asc")
     \/ (a.min_price = None /\ a.max_price = None /\ a.min_rating = None)}

\* the filter calls made between the searches of the store specification
StoreFilterArgs ==
  {a \in FilterArgs :
     /\ a.min_price = Some(2)
     /\ a.max_price = Some(0)
     /\ a.min_rating = Some(0)
     /\ a.sort_by = "price"
     /\ a.order = "asc"
     /\ ~a.duplicate}

Selections == {"temp_hist", "temp_app", "app", "none"}
TempSelections == {"live", "hist", "none"}

----------------------------------------------------------------------------
(* The calls.  The endpoints are plain functions, which the server runs in *)
(* the threads of its pool: a request takes its steps while other requests *)
(* take theirs.  A step is what a call does up to and with one transaction *)
(* on a table or one reading of the clock, the two things the calls share: *)
(* a search takes one step for the request of a page and the items up to   *)
(* the first Product it builds, one for each Product after it, one for     *)
(* each transaction of save_and_return_products and one for each record    *)
(* it builds; a history request one for its clear, one for its select and  *)
(* one for its commit.  Any number of searches and of history requests are *)
(* in flight at a time, beside the clears and the reads.                   *)

Call(op, args, ret, err) ==
  [op |-> op, args |-> args, ret |-> ret, err |-> err, applied |-> {},
   log |-> << >>, after |-> None]

ReadOps ==
  {"filter_app_temp_products", "filter_hist_temp_products",
   "get_all_temp_products"}

\* what a read keeps of the call that ended before it, when that call was
\* clear_database or a read: the function, its arguments and whether it
\* returned
after_call(call) ==
  IF call.op \in ReadOps \cup {"clear_database"}
  THEN Some([op |-> call.op, args |-> call.args,
             returned |-> call.err.type = "none"])
  ELSE None

\* what the log keeps of session.get for a page: the response, or, of a
\* page after the first that failed, only that it was skipped; and whether
\* `response` was assigned
Get(page, resp) ==
  [ev |-> "get", page |-> page,
   resp |-> IF page_failed(resp) /\ page > 1
            THEN Response("skipped", 0, << >>) ELSE resp,
   bound |-> response_bound(resp)]
Sleep(page) == [ev |-> "sleep", page |-> page]
\* "Successfully saved ..." / "[SCRAPE] Failed to save search results to DB"
Saved(ok) == [ev |-> IF ok THEN "saved" ELSE "save failed", page |-> 0]

\* save_and_return_products has not been called
NotSaving == [step |-> 1, stamps |-> << >>]

\* the locals of scrape_amazon_products(q, n) as the call begins:
\* all_products = list(), and the loop is about to request page 1
Search(q, n) ==
  [pc |-> "loop", query |-> q, max_pages |-> n, page_num |-> 1,
   all_products |-> << >>, events |-> << >>, pending |-> << >>,
   page_products |-> << >>, saving |-> NotSaving]

\* no search is in flight
NoSearch == << >>

\* no history request is in flight
NoHistory == << >>

\* the requests in flight but the i-th, which has returned
returned(running, i) ==
  SubSeq(running, 1, i - 1) \o SubSeq(running, i + 1, Len(running))

Init ==
  /\ permanent = << >>
  /\ temp_app = << >>
  /\ temp_hist = << >>
  /\ clock = 0
  /\ searches = NoSearch
  /\ hist = NoHistory
  /\ requests = 0
  /\ last = Call("none", << >>, << >>, NoError)
  /\ threads = << >>

\* the server takes one more request and runs its endpoint in a thread
taken ==
  /\ requests < MaxRequests
  /\ requests' = requests + 1

\* scrape_amazon_products(q, n) is called, whatever the other requests are
\* doing
scrape_amazon_products(q, n) ==
  /\ taken
  /\ searches' = Append(searches, Search(q, n))
  /\ UNCHANGED <<tables, clock, hist, last, threads>>

\* where the loop of the search s goes after the iteration for page_num
next_pc(s) == IF s.page_num < s.max_pages THEN "loop" ELSE "save"
next_page(s) == IF s.page_num < s.max_pages THEN s.page_num + 1 ELSE s.page_num

\* a variant of the else branch that leaves the loop ("break")
after_skip_break(s) == "save"

\* "if page_num == 1: raise ..." in each except clause
fatal_page(page) == page = 1

\* "else: ... continue": on to the next iteration, if there is one
after_skip(s) == next_pc(s)

\* the items of the local `response` in an except clause: `response` is
\* what session.get returned last, for this page or, when session.get
\* raised, for a page before it; a response with an error status and a
\* body that cannot be parsed have no items
stale_items(log) ==
  LET bound == SelectSeq(log, LAMBDA e : e.ev = "get" /\ e.bound)
  IN  IF bound = << >> THEN << >> ELSE bound[Len(bound)].resp.items

\* a variant whose except clauses fall through to the parse of `response`
skipped_products_parsed(stale, now) == extract_products_from_page(stale, now)

\* "continue": the rest of the iteration is not run and `response` is not
\* parsed, so the page adds nothing to all_products
skipped_products(stale, now) == << >>

\* all_products.extend(page_products)
extend(products, page_products) == products \o page_products

\* the readings of the clock the search s is bound to take: one for each
\* Product of the items its item loop has yet to go through and, once it
\* has cleared temp_app, one for each record it has yet to build
owes(s) ==
  Len(extract_products_from_page(s.pending, 0))
    + (IF s.saving.step > 1
       THEN 2 * Len(s.all_products) - Len(s.saving.stamps) ELSE 0)

RECURSIVE owed(_)
owed(running) ==
  IF running = << >> THEN 0 ELSE owes(Head(running)) + owed(Tail(running))

\* how many of the items the item loop goes through up to and with the
\* first it builds a Product for: all of them when it builds none
up_to_product(items) ==
  LET built == {k \in DOMAIN items :
                  extract_products_from_page(SubSeq(items, 1, k), 0) # << >>}
  IN  IF built = {} THEN Len(items)
      ELSE CHOOSE k \in built : \A j \in built : k <= j

\* the item loop of extract_products_from_page in the search s, from the
\* item it stands at up to and with the next Product(...), which reads the
\* clock; after the last Product of the page the loop runs to its end, the
\* function returns and the iteration of the page loop ends with
\* all_products.extend(page_products) and, before another page, time.sleep
item_loop(s, now) ==
  LET k == up_to_product(s.pending)
      built == extract_products_from_page(SubSeq(s.pending, 1, k), now)
      rest == SubSeq(s.pending, k + 1, Len(s.pending))
      page_products == s.page_products \o built
  IN  [clock |-> now + Len(built),
       search |->
         IF extract_products_from_page(rest, 0) # << >>
         THEN [s EXCEPT !.pc = "parse", !.pending = rest,
                        !.page_products = page_products]
         ELSE [s EXCEPT !.pc = next_pc(s),
                        !.page_num = next_page(s),
                        !.events = IF s.page_num < s.max_pages
                                   THEN Append(@, Sleep(s.page_num)) ELSE @,
                        !.all_products = extend(@, page_products),
                        !.pending = << >>,
                        !.page_products = << >>]]

\* one iteration of "for page_num in range(1, max_pages + 1)" in the i-th
\* of the searches in flight, up to and with the first Product of the page:
\* it reads and writes no table, and what other requests do while it waits
\* for the response, backs off and sleeps are the steps they take before
\* and after this one.  A page is parsed, and a loop of records begun,
\* only while the clock has the readings left that it takes
loop_iteration(i, resp) ==
  LET mine == searches[i]
      got == Get(mine.page_num, resp)
      parsed == item_loop([mine EXCEPT !.events = Append(@, got),
                                       !.pending = resp.items], clock)
  IN
  /\ i \in DOMAIN searches
  /\ mine.pc = "loop"
  /\ clock + owed(searches)
       + Len(extract_products_from_page(resp.items, 0)) <= MaxClock
  /\ IF page_failed(resp)
     THEN IF fatal_page(mine.page_num)
          THEN \* raise ex.Scraper...Error
               /\ last' = [Call("scrape_amazon_products",
                                <<mine.query, mine.max_pages>>, << >>,
                                page_one_error(resp))
                             EXCEPT !.log = Append(mine.events, got)]
               /\ searches' = returned(searches, i)
               /\ UNCHANGED <<tables, clock, hist, requests, threads>>
          ELSE \* continue
               /\ searches' =
                    [searches EXCEPT
                       ![i].pc = after_skip(mine),
                       ![i].page_num = next_page(mine),
                       ![i].events = Append(mine.events, got),
                       ![i].all_products =
                         extend(mine.all_products,
                                skipped_products(
                                  stale_items(Append(mine.events, got)),
                                  clock))]
               /\ UNCHANGED <<tables, clock, hist, last, requests, threads>>
     ELSE /\ searches' = [searches EXCEPT ![i] = parsed.search]
          /\ clock' = parsed.clock
          /\ UNCHANGED <<tables, hist, last, requests, threads>>

\* the item loop of the page the i-th of the searches in flight is parsing
\* goes on to its next Product(...)
item_parsed(i) ==
  LET mine == searches[i]
      parsed == item_loop(mine, clock)
  IN
  /\ i \in DOMAIN searches
  /\ mine.pc = "parse"
  /\ searches' = [searches EXCEPT ![i] = parsed.search]
  /\ clock' = parsed.clock
  /\ UNCHANGED <<tables, hist, last, requests, threads>>

\* save_and_return_products(all_products, query) in the i-th of the
\* searches in flight, one transaction of its try block: the clear of
\* temp_app, the commit of permanent once the records are built, the commit
\* of temp_app.  The handler of a failure and the return after the last
\* commit touch no table and end the call in the same step.
return_saved(i, fails) ==
  LET mine == searches[i]
      step == save_steps[mine.saving.step]
      done == save_transaction(DB, step, mine.all_products, mine.query,
                               mine.saving.stamps, fails)
      raised == done.raised /\ ~save_exception_caught(step)
  IN
  /\ i \in DOMAIN searches
  /\ mine.pc = "save"
  /\ IF mine.saving.step = 1
     THEN fails \/ clock + owed(searches) + 2 * Len(mine.all_products)
                     <= MaxClock
     ELSE Len(mine.saving.stamps) = 2 * Len(mine.all_products)
  /\ permanent' = done.db.permanent
  /\ temp_app' = done.db.temp_app
  /\ temp_hist' = done.db.temp_hist
  /\ IF done.raised \/ mine.saving.step = Len(save_steps)
     THEN /\ last' = [Call("scrape_amazon_products",
                           <<mine.query, mine.max_pages>>,
                           IF raised THEN << >> ELSE mine.all_products,
                           IF raised THEN Error("Exception", 0) ELSE NoError)
                        EXCEPT !.log = mine.events \o done.log
                                         \o <<Saved(~done.raised)>>]
          /\ searches' = returned(searches, i)
          /\ UNCHANGED <<clock, hist, requests, threads>>
     ELSE /\ searches' =
               [searches EXCEPT
                  ![i].saving.step = @ + 1,
                  ![i].events = mine.events \o done.log]
          /\ UNCHANGED <<clock, hist, last, requests, threads>>

\* "for p in all_products" in the i-th of the searches in flight, once
\* temp_app is cleared: SearchRecord(...) or, after it, TempAppSearchRecord(...)
\* of the same product is built and reads the clock; session.add writes
\* nothing before the commit
record_built(i) ==
  LET mine == searches[i]
  IN
  /\ i \in DOMAIN searches
  /\ mine.pc = "save"
  /\ mine.saving.step > 1
  /\ Len(mine.saving.stamps) < 2 * Len(mine.all_products)
  /\ searches' = [searches EXCEPT ![i].saving.stamps = Append(@, clock)]
  /\ clock' = clock + 1
  /\ UNCHANGED <<tables, hist, last, requests, threads>>

\* search_and_copy_to_hist_temp_db(q) is called: clear_database("temp_hist")
history(q, fails) ==
  LET cleared == clear_database(DB, "temp_hist", fails)
  IN
  /\ permanent' = cleared.db.permanent
  /\ temp_app' = cleared.db.temp_app
  /\ temp_hist' = cleared.db.temp_hist
  /\ IF cleared.raised
     THEN /\ last' = [Call("search_and_copy_to_hist_temp_db", <<q>>, << >>,
                           Error("Exception", 0))
                        EXCEPT !.log = cleared.log]
          /\ UNCHANGED hist
     ELSE /\ hist' = Append(hist, [at |-> "select", query |-> q,
                                   records |-> << >>, log |-> cleared.log])
          /\ UNCHANGED last
  /\ taken
  /\ UNCHANGED <<clock, scrape_locals>>

\* permanent_session.exec(statement).all() in the i-th of the requests in
\* flight; without records the function returns the empty list
history_select(i, fails) ==
  LET selected == history_selected(DB, hist[i].query, fails)
  IN
  /\ i \in DOMAIN hist
  /\ hist[i].at = "select"
  /\ IF selected.raised \/ selected.records = << >>
     THEN /\ last' = [Call("search_and_copy_to_hist_temp_db",
                           <<hist[i].query>>, << >>,
                           IF selected.raised THEN Error("Exception", 0)
                           ELSE NoError)
                        EXCEPT !.log = hist[i].log \o selected.log]
          /\ hist' = returned(hist, i)
     ELSE /\ hist' = [hist EXCEPT ![i].at = "commit",
                                  ![i].records = selected.records]
          /\ UNCHANGED last
  /\ UNCHANGED <<tables, clock, scrape_locals, requests>>

\* the copies are added and hist_temp_session.commit() runs in the i-th of
\* the requests in flight; the function returns the products or raises
history_commit(i, fails) ==
  LET copied == history_copied(DB, hist[i].records, fails)
  IN
  /\ i \in DOMAIN hist
  /\ hist[i].at = "commit"
  /\ permanent' = copied.db.permanent
  /\ temp_app' = copied.db.temp_app
  /\ temp_hist' = copied.db.temp_hist
  /\ last' = [Call("search_and_copy_to_hist_temp_db", <<hist[i].query>>,
                   copied.ret,
                   IF copied.raised THEN Error("Exception", 0) ELSE NoError)
                EXCEPT !.log = hist[i].log \o copied.log]
  /\ hist' = returned(hist, i)
  /\ UNCHANGED <<clock, scrape_locals, requests>>

\* clear_database(selection), called on its own
clear(selection, fails) ==
  LET done == clear_database(DB, selection, fails)
  IN
  /\ permanent' = done.db.permanent
  /\ temp_app' = done.db.temp_app
  /\ temp_hist' = done.db.temp_hist
  /\ last' = [Call("clear_database", <<selection>>, << >>,
                   IF done.raised THEN Error("Exception", 0) ELSE NoError)
                EXCEPT !.log = done.log]
  /\ taken
  /\ UNCHANGED <<clock, scrape_locals, hist>>

\* the process starts again on the files the one before it left: the hook
\* runs before the server takes a request, so that none is in flight
lifespan(failure) ==
  LET done == lifespan_startup(DB, failure)
  IN
  /\ searches = NoSearch
  /\ hist = NoHistory
  /\ permanent' = done.db.permanent
  /\ temp_app' = done.db.temp_app
  /\ temp_hist' = done.db.temp_hist
  /\ last' = [Call("lifespan", << >>, << >>,
                   IF done.raised THEN Error("Exception", 0) ELSE NoError)
                EXCEPT !.log = done.log]
  /\ taken
  /\ UNCHANGED <<clock, scrape_locals, hist>>

\* a variant of the read that deletes what it has read from temp_app
session_read_and_delete(db) == [db EXCEPT !.temp_app = << >>]

\* temp_session.exec(statement).all() ... finally: temp_session.close():
\* the session adds, deletes and commits nothing
session_read(db) == db

\* what a read ends with: the products, or, when the statement fails,
\* "except Exception as e: log.error(...); raise"
read_call(op, args, products, fails) ==
  IF fails
  THEN [Call(op, args, << >>, Error("Exception", 0))
          EXCEPT !.log = <<Logged("error reading")>>]
  ELSE Call(op, args, products, NoError)

\* filter_app_temp_products has no duplicate parameter
filter_app_temp_products(a, fails) ==
  /\ ~a.duplicate
  /\ last' = [read_call("filter_app_temp_products", a,
                        products_of(filter_app_statement(temp_app, a)), fails)
                EXCEPT !.applied =
                  applied_predicates(a.min_price, a.max_price, a.min_rating),
                       !.after = after_call(last)]
  /\ permanent' = session_read(DB).permanent
  /\ temp_app' = session_read(DB).temp_app
  /\ temp_hist' = session_read(DB).temp_hist
  /\ taken
  /\ UNCHANGED <<clock, scrape_locals, hist>>

filter_hist_temp_products(a, fails) ==
  /\ last' = [read_call("filter_hist_temp_products", a,
                        products_of(filter_hist_statement(temp_hist, a)), fails)
                EXCEPT !.applied =
                  applied_predicates(a.min_price, a.max_price, a.min_rating),
                       !.after = after_call(last)]
  /\ permanent' = session_read(DB).permanent
  /\ temp_app' = session_read(DB).temp_app
  /\ temp_hist' = session_read(DB).temp_hist
  /\ taken
  /\ UNCHANGED <<clock, scrape_locals, hist>>

\* a selection that is neither "hist" nor "live" raises before a session
\* is opened
get_all_temp_products(selection, fails) ==
  /\ last' = [(IF selection = "hist"
                THEN read_call("get_all_temp_products", <<selection>>,
                               products_of(get_all_statement(temp_hist)), fails)
                ELSE IF selection = "live"
                THEN read_call("get_all_temp_products", <<selection>>,
                               products_of(get_all_statement(temp_app)), fails)
                ELSE Call("get_all_temp_products", <<selection>>, << >>,
                          Error("Exception", 0)))
                EXCEPT !.after = after_call(last)]
  /\ permanent' = session_read(DB).permanent
  /\ temp_app' = session_read(DB).temp_app
  /\ temp_hist' = session_read(DB).temp_hist
  /\ taken
  /\ UNCHANGED <<clock, scrape_locals, hist>>

\* the searches and the history requests made beside the other requests:
\* for one query, the searches of one page, with one item, with two, or
\* answered 404
StoreQueries == {"q1"}
StorePages == {1}
StoreResponses ==
  {Response("page", 200, <<Item_A>>),
   Response("page", 200, <<Item_A, Item_B>>), Response("status", 404, << >>)}

Next ==
  \/ \E q \in StoreQueries, n \in StorePages : scrape_amazon_products(q, n)
  \/ \E i \in 1..MaxRequests, resp \in StoreResponses : loop_iteration(i, resp)
  \/ \E i \in 1..MaxRequests : item_parsed(i)
  \/ \E i \in 1..MaxRequests, fails \in BOOLEAN : return_saved(i, fails)
  \/ \E i \in 1..MaxRequests : record_built(i)
  \/ \E q \in StoreQueries, fails \in BOOLEAN : history(q, fails)
  \/ \E i \in 1..MaxRequests, fails \in BOOLEAN : history_select(i, fails)
  \/ \E i \in 1..MaxRequests, fails \in BOOLEAN : history_commit(i, fails)
  \/ \E selection \in Selections, fails \in BOOLEAN : clear(selection, fails)
  \/ \E a \in StoreFilterArgs, fails \in BOOLEAN :
       filter_app_temp_products(a, fails)
  \/ \E a \in StoreFilterArgs, fails \in BOOLEAN :
       filter_hist_temp_products(a, fails)
  \/ \E selection \in TempSelections, fails \in BOOLEAN :
       get_all_temp_products(selection, fails)
  \/ \E failure \in LifespanFailures : lifespan(failure)

Spec == Init /\ [][Next]_vars

\* the scrape specification: the first request is a search of up to
\* MaxPages pages, each page answered in every way, and no other request
\* is made beside it
NextScrape ==
  \/ requests = 0
       /\ \E q \in Queries, n \in 1..MaxPages : scrape_amazon_products(q, n)
  \/ \E resp \in Responses : loop_iteration(1, resp)
  \/ item_parsed(1)
  \/ \E fails \in BOOLEAN : return_saved(1, fails)
  \/ record_built(1)

SpecScrape == Init /\ [][NextScrape]_vars

----------------------------------------------------------------------------
(* The filter specification: the filter and sort layer applied to the      *)
(* tables as one search for "q1", then its history, leave them.            *)

EmptyDB == [permanent |-> << >>, temp_app |-> << >>, temp_hist |-> << >>]

InitFilter ==
  \E items \in SeqUpTo(FilterItems, MaxRows) :
    LET products == extract_products_from_page(items, 0)
        saved == save_and_return_products(EmptyDB, products, "q1", "none",
                                          Len(products))
        copied == search_and_copy_to_hist_temp_db(saved.db, "q1", "none")
    IN  /\ permanent = copied.db.permanent
        /\ temp_app = copied.db.temp_app
        /\ temp_hist = copied.db.temp_hist
        /\ clock = saved.clock
        /\ searches = NoSearch
        /\ hist = NoHistory
        /\ requests = 0
        /\ last = Call("none", << >>, << >>, NoError)
        /\ threads = << >>

\* one read of the tables the specification starts from
NextFilter ==
  /\ requests = 0
  /\ \/ \E a \in CalledFilterArgs : filter_app_temp_products(a, FALSE)
     \/ \E a \in CalledFilterArgs : filter_hist_temp_products(a, FALSE)
     \/ \E selection \in TempSelections :
          get_all_temp_products(selection, FALSE)

SpecFilter == InitFilter /\ [][NextFilter]_vars

----------------------------------------------------------------------------
(* The text processors.  A text is a sequence of characters, the phrase    *)
(* " out of 5 stars" counting as one; a number read from a text is kept in *)
(* fixed point, in units of 10^-(MaxText - 1): a text with a point has at   *)
(* most MaxText - 1 decimals, so that no digit is lost.                     *)

Stars == " out of 5 stars"
Digits == {"0", "5", "9"}
Characters == Digits \cup {".", "-", ",", "$", "x", Stars}
Texts == SeqUpTo(Characters, MaxText)

digit_value(c) == IF c = "0" THEN 0 ELSE IF c = "5" THEN 5 ELSE 9

is_digits(t) == \A i \in 1..Len(t) : t[i] \in Digits

RECURSIVE digits_value(_)
digits_value(t) ==
  IF t = << >> THEN 0
  ELSE 10 * digits_value(SubSeq(t, 1, Len(t) - 1)) + digit_value(t[Len(t)])

\* the number n / 10^places
FixedPoint(n, places) == n * 10 ^ (MaxText - 1 - places)

\* float(t) for a text without sign: digits, with at most one point and a
\* digit on one side of it at least; None stands for ValueError
unsigned_float(t) ==
  LET points == {i \in 1..Len(t) : t[i] = "."}
  IN  IF points = {}
      THEN IF t # << >> /\ is_digits(t)
           THEN Some(FixedPoint(digits_value(t), 0)) ELSE None
      ELSE IF Cardinality(points) > 1 THEN None
      ELSE LET k == CHOOSE i \in points : TRUE
               whole == SubSeq(t, 1, k - 1)
               fraction == SubSeq(t, k + 1, Len(t))
           IN  IF is_digits(whole) /\ is_digits(fraction)
                    /\ Len(whole) + Len(fraction) > 0
               THEN Some(FixedPoint(digits_value(whole \o fraction),
                                    Len(fraction)))
               ELSE None

\* float(t)
python_float(t) ==
  IF t # << >> /\ t[1] = "-"
  THEN LET x == unsigned_float(Tail(t))
       IN  IF x = None THEN None ELSE Some(0 - x[1])
  ELSE unsigned_float(t)

\* int(t): an optional sign and digits; None stands for ValueError
python_int(t) ==
  LET digits == IF t # << >> /\ t[1] = "-" THEN Tail(t) ELSE t
      n == digits_value(digits)
  IN  IF digits # << >> /\ is_digits(digits)
      THEN Some(IF t[1] = "-" THEN 0 - n ELSE n)
      ELSE None

\* re.sub(currency_pattern, "", price_full_text)
strip_currency(t) == SelectSeq(t, LAMBDA c : c # "$")

\* _process_price(price_full_text)
_process_price(t) == IF t = << >> THEN None ELSE python_float(strip_currency(t))

\* ([0-5]\.?[0-9]?): a digit up to 5, then a point or not, then a digit
\* or not
rating_group(g) ==
  /\ Len(g) \in 1..3
  /\ g[1] \in Digits /\ digit_value(g[1]) <= 5
  /\ Len(g) = 2 => (g[2] = "." \/ g[2] \in Digits)
  /\ Len(g) = 3 => (g[2] = "." /\ g[3] \in Digits)

\* re.search(r"([0-5]\.?[0-9]?) out of 5 stars", t): the group of the
\* leftmost match, None without one
rating_search(t) ==
  LET matches == {<<i, n>> \in (1..Len(t)) \X (1..3) :
                    /\ i + n <= Len(t)
                    /\ rating_group(SubSeq(t, i, i + n - 1))
                    /\ t[i + n] = Stars}
  IN  IF matches = {} THEN None
      ELSE LET m == CHOOSE m \in matches : \A o \in matches : m[1] <= o[1]
           IN  Some(SubSeq(t, m[1], m[1] + m[2] - 1))

\* _process_rating(rating_text)
_process_rating(t) ==
  IF t = << >> THEN None
  ELSE LET match == rating_search(t)
       IN  IF match = None THEN None ELSE python_float(match[1])

\* _process_review_count(review_count_text)
_process_review_count(t) ==
  IF t = << >> THEN None
  ELSE python_int(SelectSeq(t, LAMBDA c : c # ","))

\* what safe_extract finds in a result item
RawItem(title, link, price, rating, review_count, image) ==
  [title |-> title, link |-> link, price |-> price, rating |-> rating,
   review_count |-> review_count, image |-> image]

\* the item after _process_price, _process_rating, _process_review_count
processed(raw) ==
  Item(raw.title, raw.link, _process_price(raw.price),
       _process_rating(raw.rating), _process_review_count(raw.review_count),
       raw.image)

----------------------------------------------------------------------------
(* The parser specification: extract_products_from_page and the three text *)
(* processors, each called once on what a result item can carry.           *)

GoodPrice == <<"$", "5", ".", "9">>
GoodRating == <<"5", ".", "0", Stars>>
GoodCount == <<"5", ",", "0">>

\* result items: every way a field can be missing or zero, and every text
\* in each of the three processed fields
RawItems ==
  {RawItem(title, link, price, rating, review_count, image) :
     title \in {<< >>, Title_A}, link \in {None, Some("/a"), Some("//[")},
     price \in {<< >>, <<"0">>, GoodPrice},
     rating \in {<< >>, <<"0", Stars>>, GoodRating},
     review_count \in {<< >>, <<"0">>, GoodCount},
     image \in {None, Some("a.jpg")}}

\* the items that carry the text t as their price, rating or review count
TextItems(t) ==
  {RawItem(Title_A, Some("/a"), t, GoodRating, GoodCount, Some("a.jpg")),
   RawItem(Title_A, Some("/a"), GoodPrice, t, GoodCount, Some("a.jpg")),
   RawItem(Title_A, Some("/a"), GoodPrice, GoodRating, t, Some("a.jpg"))}

\* the result items of the pages with several items: one with every field,
\* one with nothing but title and link, one without title, one without
\* href, one with an href urljoin raises on
PageItems ==
  {RawItem(Title_A, Some("/a"), GoodPrice, GoodRating, GoodCount, Some("a.jpg")),
   RawItem(Title_B, Some("/b"), <<"x">>, << >>, << >>, None),
   RawItem(<< >>, Some("/c"), GoodPrice, GoodRating, GoodCount, Some("c.jpg")),
   RawItem(Title_AB, None, GoodPrice, GoodRating, GoodCount, Some("d.jpg")),
   RawItem(Title_AB, Some("//["), GoodPrice, GoodRating, GoodCount, Some("e.jpg"))}

InitParse ==
  /\ permanent = << >>
  /\ temp_app = << >>
  /\ temp_hist = << >>
  /\ clock = 0
  /\ searches = NoSearch
  /\ hist = NoHistory
  /\ requests = 0
  /\ last = Call("none", << >>, << >>, NoError)
  /\ threads = << >>

\* a processor called on a text: it returns a number or None and never
\* raises, ValueError being caught
processor_called(name, t, ret) ==
  /\ taken
  /\ last' = Call(name, <<t>>, ret, NoError)
  /\ UNCHANGED <<tables, clock, scrape_locals, hist>>

price_processed(t) == processor_called("_process_price", t, _process_price(t))
rating_processed(t) == processor_called("_process_rating", t, _process_rating(t))
review_count_processed(t) ==
  processor_called("_process_review_count", t, _process_review_count(t))

\* extract_products_from_page on a page with one result item
page_extracted(raw) ==
  LET products == extract_products_from_page(<<processed(raw)>>, clock)
  IN  /\ taken
      /\ last' = Call("extract_products_from_page", <<raw>>, products, NoError)
      /\ clock' = clock + Len(products)
      /\ UNCHANGED <<tables, scrape_locals, hist>>

\* extract_products_from_page on a page with the result items raws
items_extracted(raws) ==
  LET items == [i \in 1..Len(raws) |-> processed(raws[i])]
      products == extract_products_from_page(items, clock)
  IN  /\ taken
      /\ last' = Call("extract_products_from_page", raws, products, NoError)
      /\ clock' = clock + Len(products)
      /\ UNCHANGED <<tables, scrape_locals, hist>>

\* the caller makes one call
NextParse ==
  \/ requests = 0 /\ \E t \in Texts : price_processed(t)
  \/ requests = 0 /\ \E t \in Texts : rating_processed(t)
  \/ requests = 0 /\ \E t \in Texts : review_count_processed(t)
  \/ requests = 0 /\ \E raw \in RawItems : page_extracted(raw)
  \/ requests = 0 /\ \E t \in Texts : \E raw \in TextItems(t) : page_extracted(raw)
  \/ requests = 0 /\ \E raws \in SeqUpTo(PageItems, MaxItems) : items_extracted(raws)

SpecParse == InitParse /\ [][NextParse]_vars

----------------------------------------------------------------------------
(* The concurrent specification: two searches, each in one of the threads  *)
(* the server runs its requests in, from the end of their page loops       *)
(* through save_and_return_products.  A commit is one step; between two    *)
(* steps of a thread the other thread may take steps of its own.           *)

Threads == {1, 2}

Thread(at, q, products, stamps, saved) ==
  [at |-> at, query |-> q, all_products |-> products, stamps |-> stamps,
   saved |-> saved]

InitConcurrent ==
  /\ permanent = << >>
  /\ temp_app = << >>
  /\ temp_hist = << >>
  /\ clock = 0
  /\ searches = NoSearch
  /\ hist = NoHistory
  /\ requests = 0
  /\ last = Call("none", << >>, << >>, NoError)
  /\ threads = [t \in Threads |-> Thread("start", "q1", << >>, << >>, FALSE)]

thread_step == UNCHANGED <<searches, hist, last, requests>>

\* the page loop of thread t builds the Product of one more item, which
\* reads the clock
product_built(t, item) ==
  /\ threads[t].at = "start"
  /\ Len(threads[t].all_products) < MaxThreadProducts
  /\ threads' = [threads EXCEPT ![t].all_products =
                   @ \o extract_products_from_page(<<item>>, clock)]
  /\ clock' = clock + Len(extract_products_from_page(<<item>>, clock))
  /\ thread_step
  /\ UNCHANGED tables

\* thread t ends its page loop and calls
\* save_and_return_products(all_products, q)
save_called(t, q) ==
  /\ threads[t].at = "start"
  /\ threads' = [threads EXCEPT ![t].at = "clear", ![t].query = q]
  /\ thread_step
  /\ UNCHANGED <<tables, clock>>

\* clear_database(selection="temp_app"): the delete and its commit; what it
\* raises is caught by the handler of the try block.  After it comes the
\* loop that builds the records, which has nothing to do without products
temp_app_cleared(t, fails) ==
  LET done == clear_database(DB, "temp_app", fails)
  IN  /\ threads[t].at = "clear"
      /\ permanent' = done.db.permanent
      /\ temp_app' = done.db.temp_app
      /\ temp_hist' = done.db.temp_hist
      /\ threads' = [threads EXCEPT ![t].at =
                       IF done.raised THEN "done"
                       ELSE IF threads[t].all_products = << >>
                       THEN "commit_permanent" ELSE "add"]
      /\ thread_step
      /\ UNCHANGED clock

\* the loop that builds the records and adds them to the two sessions:
\* SearchRecord(...) or, after it, TempAppSearchRecord(...) of the same
\* product is built and reads the clock
records_added(t) ==
  LET mine == threads[t]
      stamps == Append(mine.stamps, clock)
  IN  /\ mine.at = "add"
      /\ threads' = [threads EXCEPT
                       ![t].stamps = stamps,
                       ![t].at = IF Len(stamps) = 2 * Len(mine.all_products)
                                 THEN "commit_permanent" ELSE "add"]
      /\ clock' = clock + 1
      /\ thread_step
      /\ UNCHANGED tables

\* permanent_session.commit()
permanent_committed(t, fails) ==
  LET mine == threads[t]
  IN  /\ mine.at = "commit_permanent"
      /\ IF fails
         THEN /\ threads' = [threads EXCEPT ![t].at = "done"]
              /\ UNCHANGED tables
         ELSE /\ permanent' = permanent \o
                   new_permanent_records(permanent, mine.all_products,
                                         mine.query, mine.stamps)
              /\ threads' = [threads EXCEPT ![t].at = "commit_temp_app"]
              /\ UNCHANGED <<temp_app, temp_hist>>
      /\ thread_step
      /\ UNCHANGED clock

\* temp_app_session.commit()
temp_app_committed(t, fails) ==
  LET mine == threads[t]
  IN  /\ mine.at = "commit_temp_app"
      /\ IF fails
         THEN /\ threads' = [threads EXCEPT ![t].at = "done"]
              /\ UNCHANGED tables
         ELSE /\ temp_app' = temp_app \o
                   new_temp_app_records(temp_app, mine.all_products,
                                        mine.query, mine.stamps)
              /\ threads' = [threads EXCEPT ![t].at = "done", ![t].saved = TRUE]
              /\ UNCHANGED <<permanent, temp_hist>>
      /\ thread_step
      /\ UNCHANGED clock

NextConcurrent ==
  \/ \E t \in Threads, item \in ScrapeItems : product_built(t, item)
  \/ \E t \in Threads, q \in Queries : save_called(t, q)
  \/ \E t \in Threads, fails \in BOOLEAN : temp_app_cleared(t, fails)
  \/ \E t \in Threads : records_added(t)
  \/ \E t \in Threads, fails \in BOOLEAN : permanent_committed(t, fails)
  \/ \E t \in Threads, fails \in BOOLEAN : temp_app_committed(t, fails)

SpecConcurrent == InitConcurrent /\ [][NextConcurrent]_vars

----------------------------------------------------------------------------
(* The comparator (app/comparator.py): sort_products and filter_products   *)
(* on a list of Products, each called once.                                *)

ComparatorKeys == {"price", "rating", "review_count"}

\* key_func(p) < key_func(q): a missing price counts as float("inf"), a
\* missing rating as 0.0 and a missing review_count as 0
key_less(sort_by, p, q) ==
  IF sort_by = "price"
  THEN p.price # None /\ (q.price = None \/ p.price[1] < q.price[1])
  ELSE (IF p[sort_by] = None THEN 0 ELSE p[sort_by][1])
         < (IF q[sort_by] = None THEN 0 ELSE q[sort_by][1])

\* sorted(products, key=key_func, reverse=ascending): with reverse the
\* greater key comes first, products with equal keys staying in their order
sorted_reverse(products, sort_by, ascending) ==
  LET before(p, q) == IF ascending THEN key_less(sort_by, q, p)
                      ELSE key_less(sort_by, p, q)
  IN  StableSort(products, before)

\* sort_products(products, sort_by, ascending)
sort_products(products, sort_by, ascending) ==
  IF sort_by \in ComparatorKeys
  THEN [ret |-> sorted_reverse(products, sort_by, ascending), err |-> NoError]
  ELSE [ret |-> << >>, err |-> Error("ValueError", 0)]

\* filter_products(products, min_price, max_price, min_rating)
filter_products(products, min_price, max_price, min_rating) ==
  IF min_price # None /\ max_price # None /\ min_rating # None
  THEN IF min_price[1] = 0 /\ max_price[1] = 0 /\ min_rating[1] = 0
       THEN [ret |-> products, err |-> NoError]
       ELSE LET priced == SelectSeq(products,
                            LAMBDA p : p.price # None /\ p.price[1] >= min_price[1])
                capped == IF max_price[1] # 0
                          THEN SelectSeq(priced,
                                 LAMBDA p : p.price # None /\ p.price[1] <= max_price[1])
                          ELSE priced
            IN  [ret |-> SelectSeq(capped,
                           LAMBDA p : p.rating # None /\ p.rating[1] >= min_rating[1]),
                 err |-> NoError]
  ELSE [ret |-> << >>, err |-> Error("ValueError", 0)]

\* the lists the comparator is given: the products of a page of items
ComparatorLists ==
  {extract_products_from_page(items, 0) : items \in SeqUpTo(FilterItems, MaxRows)}

ComparatorSortBys == ComparatorKeys \cup {"title"}

\* a caller about to make one call
InitComparator ==
  /\ permanent = << >>
  /\ temp_app = << >>
  /\ temp_hist = << >>
  /\ clock = 0
  /\ searches = NoSearch
  /\ hist = NoHistory
  /\ requests = 0
  /\ last = Call("none", << >>, << >>, NoError)
  /\ threads = << >>

products_sorted(products, sort_by, ascending) ==
  LET done == sort_products(products, sort_by, ascending)
  IN  /\ taken
      /\ last' = Call("sort_products",
                      [products |-> products, sort_by |-> sort_by,
                       ascending |-> ascending],
                      done.ret, done.err)
      /\ UNCHANGED <<tables, clock, scrape_locals, hist>>

products_filtered(products, min_price, max_price, min_rating) ==
  LET done == filter_products(products, min_price, max_price, min_rating)
  IN  /\ taken
      /\ last' = Call("filter_products",
                      [products |-> products, min_price |-> min_price,
                       max_price |-> max_price, min_rating |-> min_rating],
                      done.ret, done.err)
      /\ UNCHANGED <<tables, clock, scrape_locals, hist>>

NextComparator ==
  \/ requests = 0 /\ \E products \in ComparatorLists, sort_by \in ComparatorSortBys,
                       ascending \in BOOLEAN :
                    products_sorted(products, sort_by, ascending)
  \/ requests = 0 /\ \E products \in ComparatorLists, min_price \in Thresholds,
                       max_price \in MaxPriceThresholds,
                       min_rating \in RatingThresholds :
                    products_filtered(products, min_price, max_price, min_rating)

SpecComparator == InitComparator /\ [][NextComparator]_vars

----------------------------------------------------------------------------
(* The /search endpoint: what search_products answers for the outcome of   *)
(* scrape_amazon_products.                                                 *)

Http(status_code, detail, body) ==
  [status_code |-> status_code, detail |-> detail, body |-> body]

\* a variant without the test of the status of a ScraperHTTPError
search_products_all_502(err, products) ==
  IF err.type = "ScraperTimeoutError" THEN Http(408, "str(e)", << >>)
  ELSE IF err.type = "ScraperConnectionError" THEN Http(502, "str(e)", << >>)
  ELSE IF err.type = "ScraperHTTPError"
    THEN Http(502, "HTTP {e.status_code}: {e.message}", << >>)
  ELSE IF err.type = "ScraperParsingError"
    THEN Http(500, "Parsing error: {e}", << >>)
  ELSE IF err.type # "none" THEN Http(500, "Unexpected error: {e}", << >>)
  ELSE IF products = << >>
    THEN Http(404, "No products found for the given query.", << >>)
  ELSE Http(200, "", products)

\* search_products: the except clauses in their order, then
\* "if not products", then "return products"
search_products(err, products) ==
  IF err.type = "ScraperTimeoutError" THEN Http(408, "str(e)", << >>)
  ELSE IF err.type = "ScraperConnectionError" THEN Http(502, "str(e)", << >>)
  ELSE IF err.type = "ScraperHTTPError"
    THEN IF err.status_code = 404
         THEN Http(404, "No products found (HTTP 404) for  '{query}'.", << >>)
         ELSE Http(502, "HTTP {e.status_code}: {e.message}", << >>)
  ELSE IF err.type = "ScraperParsingError"
    THEN Http(500, "Parsing error: {e}", << >>)
  ELSE IF err.type # "none" THEN Http(500, "Unexpected error: {e}", << >>)
  ELSE IF products = << >>
    THEN Http(404, "No products found for the given query.", << >>)
  ELSE Http(200, "", products)

\* str(e) of what scrape_amazon_products raised
scrape_message(err) ==
  CASE err.type = "ScraperTimeoutError" ->
         "Request timed out while fetching data for query '{query}' page {page_num}."
    [] err.type = "ScraperConnectionError" ->
         "Connection error for query '{query}' page {page_num}. Please check your network."
    [] err.type = "ScraperHTTPError" -> "Returned HTTP {status_code} for page {page_num}"
    [] err.type = "ScraperException" ->
         "Generic request failure for query '{query}' page {page_num}: {e}"
    [] err.type = "ScraperParsingError" ->
         "HTML parsing failed for query '{query}' page {page_num}: {e}"
    [] OTHER -> "{e}"

\* the detail of an answer as the pieces of its f-string, str(e) in the
\* place of {e}
detail_text(answer, message) ==
  IF answer.detail = "str(e)" THEN <<message>>
  ELSE IF answer.detail = "Parsing error: {e}" THEN <<"Parsing error: ", message>>
  ELSE IF answer.detail = "Unexpected error: {e}"
    THEN <<"Unexpected error: ", message>>
  ELSE <<answer.detail>>

----------------------------------------------------------------------------
(* Properties.  What a call did is read from last: its arguments, what it  *)
(* returned or raised, and the log of its requests.                        *)

Scrape == "scrape_amazon_products"
History == "search_and_copy_to_hist_temp_db"
FilterOps == {"filter_app_temp_products", "filter_hist_temp_products"}

\* the requests of a log, in the order they were made
Gets(log) == SelectSeq(log, LAMBDA e : e.ev = "get")
PageNumbers(log) == [i \in 1..Len(Gets(log)) |-> Gets(log)[i].page]
Upto(n) == [i \in 1..n |-> i]

\* a step in which the i-th search in flight ends: it leaves the searches
\* in flight and what it did is in last'
SearchEnds(i) ==
  /\ i \in DOMAIN searches
  /\ searches' = returned(searches, i)
  /\ last'.op = Scrape
  /\ last'.args = <<searches[i].query, searches[i].max_pages>>

\* a step the i-th search in flight takes and does not end with
SearchGoesOn(i) ==
  /\ i \in DOMAIN searches
  /\ Len(searches') = Len(searches)
  /\ searches'[i] # searches[i]

\* a step that is an iteration of the page loop of the i-th search in
\* flight, and the log as it leaves it
LoopStep(i) ==
  /\ i \in DOMAIN searches
  /\ searches[i].pc = "loop"
  /\ SearchGoesOn(i) \/ SearchEnds(i)
StepLog(i) == IF SearchEnds(i) THEN last'.log ELSE searches'[i].events
StepResponse(i) == Gets(StepLog(i))[Len(Gets(StepLog(i)))].resp

\* a step in which a call of op ends: what the call did is in last'
Ends(op) == last' # last /\ last'.op = op

\* no search and no history request is running
Quiet == searches = NoSearch /\ hist = NoHistory

\* a step of save_and_return_products, called by the i-th search in
\* flight, that ran the transaction named
StepDone(i, step) ==
  /\ i \in DOMAIN searches
  /\ searches[i].pc = "save"
  /\ save_steps[searches[i].saving.step] = step
  /\ IF searches[i].saving.step = Len(save_steps)
     THEN SearchEnds(i) /\ last'.log[Len(last'.log)].ev = "saved"
     ELSE /\ SearchGoesOn(i)
          /\ searches'[i].saving.step = searches[i].saving.step + 1

\* s and t hold the same elements the same number of times
SameBag(s, t) ==
  /\ Len(s) = Len(t)
  /\ \A x \in Range(s) \cup Range(t) :
       Cardinality({i \in 1..Len(s) : s[i] = x})
         = Cardinality({i \in 1..Len(t) : t[i] = x})

\* the columns a row written for product p of a search for q carries
ProductRow(q, p) ==
  [query |-> q, title |-> p.title, price |-> p.price, rating |-> p.rating,
   review_count |-> p.review_count, product_url |-> p.product_url,
   image_url |-> p.image_url, valid |-> p.valid]

\* a step that is clear_database("app")
ClearApp == \E fails \in BOOLEAN : clear("app", fails)

\* a step that is a call of a filter or of get_all_temp_products: a request
\* is taken, it starts no search and no history, and the call that ended
\* last is the read
ReadStep ==
  /\ requests' # requests
  /\ searches' = searches
  /\ hist' = hist
  /\ last'.op \in ReadOps

\* the last event of the log of the call that returned
Outcome(call) == call.log[Len(call.log)].ev

----------------------------------------------------------------------------
\* C1 as stated: when the fetch of page 1 fails (timeout, connection error,
\* error status, any other request failure) the scrape raises the scraper
\* error of that failure, has requested no page but page 1, and leaves the
\* permanent, live and history tables exactly as they were.
FetchFailures ==
  {"connect timeout", "read timeout", "connection", "status", "redirects",
   "other"}

C1_Raised(resp) ==
  CASE resp.kind \in {"connect timeout", "read timeout"} ->
         Error("ScraperTimeoutError", 0)
    [] resp.kind = "connection" -> Error("ScraperConnectionError", 0)
    [] resp.kind = "status" /\ resp.status \notin status_forcelist ->
         Error("ScraperHTTPError", resp.status)
    [] OTHER -> Error("ScraperException", 0)

C1_PageOneFailureRaises ==
  [][/\ Len(searches') > Len(searches) => tables' = tables
     /\ \A i \in DOMAIN searches :
          (/\ LoopStep(i)
           /\ searches[i].page_num = 1
           /\ StepResponse(i).kind \in FetchFailures)
            => /\ SearchEnds(i)
               /\ last'.err = C1_Raised(StepResponse(i))
               /\ last'.ret = << >>
               /\ PageNumbers(last'.log) = <<1>>
               /\ tables' = tables]_vars

\* C2: a scrape requests pages 1..max_pages one after the other in
\* increasing order, a failure on a page after the first does not stop the
\* pages after it, and the list it returns is the products of the pages
\* that succeeded, concatenated in page order.
untimed(products) ==
  [i \in 1..Len(products) |-> [products[i] EXCEPT !.timestamp = 0]]

PageProducts(get) ==
  IF get.resp.kind = "page"
  THEN untimed(extract_products_from_page(get.resp.items, 0))
  ELSE << >>

C2_PagesInOrderConcatenated ==
  /\ \A i \in DOMAIN searches :
       LET mine == searches[i]
       IN  /\ PageNumbers(mine.events) = Upto(Len(Gets(mine.events)))
           /\ mine.pc = "loop" => mine.page_num = Len(Gets(mine.events)) + 1
  /\ (last.op = Scrape /\ last.err = NoError)
       => /\ PageNumbers(last.log) = Upto(last.args[2])
          /\ untimed(last.ret)
               = Flatten([i \in 1..Len(Gets(last.log)) |->
                            PageProducts(Gets(last.log)[i])])

\* page 2 of three failed; the products of pages 1 and 3 are returned
C2_Witness ==
  /\ last.op = Scrape
  /\ last.err = NoError
  /\ last.args[2] = 3
  /\ Len(Gets(last.log)) = 3
  /\ Gets(last.log)[1].resp.kind = "page"
  /\ Gets(last.log)[2].resp.kind = "skipped"
  /\ Gets(last.log)[3].resp.kind = "page"
  /\ Len(last.ret) = 2
  /\ last.ret[1].title = Title_B
  /\ last.ret[2].title = Title_A

\* C3 as stated: a search that saved its N products has added exactly N
\* rows to the permanent table, for the query and one per product, after
\* the rows the table held, which are untouched; and when it returns the
\* live table holds exactly N rows, one per product, all written by this
\* search and none from before.
C3_SavedSearchAppendsAndReplaces ==
  [][\A i \in DOMAIN searches :
       LET mine == searches[i]
       IN  /\ StepDone(i, "perm_commit")
                => LET N == Len(mine.all_products)
                       old == Len(permanent)
                   IN  /\ Len(permanent') = old + N
                       /\ SubSeq(permanent', 1, old) = permanent
                       /\ \A k \in 1..N :
                            content(permanent'[old + k])
                              = ProductRow(mine.query, mine.all_products[k])
           /\ StepDone(i, "temp_commit")
                => LET N == Len(last'.ret)
                   IN  /\ last'.ret = mine.all_products
                       /\ Len(temp_app') = N
                       /\ \A k \in 1..N :
                            /\ content(temp_app'[k])
                                 = ProductRow(mine.query, last'.ret[k])
                            /\ temp_app'[k].timestamp
                                 = mine.saving.stamps[2 * k]]_vars

\* C4: when saving fails inside save_and_return_products (clearing the live
\* table, the permanent commit or the live commit) the scrape raises
\* nothing and returns the whole aggregated list, as it does when saving
\* succeeds.
C4_SaveFailureSwallowed ==
  [][\A i \in DOMAIN searches :
       (searches[i].pc = "save" /\ SearchEnds(i))
         => /\ last'.err = NoError
            /\ last'.ret = searches[i].all_products]_vars

\* a search returned its two products though nothing of them was saved
C4_Witness ==
  /\ last.op = Scrape
  /\ Outcome(last) = "save failed"
  /\ last.err = NoError
  /\ Len(last.ret) = 2
  /\ permanent = << >>
  /\ temp_app = << >>

\* C5 as stated: in every reachable state every row of the live and of the
\* history table has a row of the permanent table with the same query,
\* title, price, rating, review_count, product_url, image_url and valid.
ScratchWithinPermanent ==
  \A r \in Range(temp_app) \cup Range(temp_hist) :
    \E p \in Range(permanent) : content(p) = content(r)

C5_Original == ScratchWithinPermanent

\* C5: every step but clear_database("app") keeps the rows of the live and
\* history tables, and the rows a request in flight has yet to commit to
\* them, matched by rows of the permanent table; so they are matched in
\* every state reached without clearing the permanent table.
C5_Committed(s) ==
  /\ s.pc = "save"
  /\ \E k \in 1..(s.saving.step - 1) : save_steps[k] = "perm_commit"

C5_Pending ==
  UNION {IF C5_Committed(searches[i])
         THEN {ProductRow(searches[i].query, searches[i].all_products[k]) :
                 k \in 1..Len(searches[i].all_products)}
         ELSE {} : i \in DOMAIN searches}
    \cup UNION {{content(hist[i].records[k]) : k \in 1..Len(hist[i].records)} :
                 i \in DOMAIN hist}

C5_Matched ==
  /\ ScratchWithinPermanent
  /\ \A r \in C5_Pending : \E p \in Range(permanent) : content(p) = r

C5_ScratchWithinPermanentUnlessAppCleared ==
  [][(C5_Matched /\ ~ClearApp) => C5_Matched']_vars

\* live and history rows, all matched, after a search that failed to save
C5_Witness ==
  /\ C5_Matched
  /\ temp_hist # << >>
  /\ Len(permanent) = 1
  /\ temp_app = << >>
  /\ last.op = Scrape
  /\ Outcome(last) = "save failed"
  /\ Len(last.ret) = 1

\* C6 as stated: search_and_copy_to_hist_temp_db(q) selects the permanent
\* rows whose query is q, newest first, and when it returns the history
\* table holds one row for each of them, with the same fields and
\* timestamp, and no other row, whatever it held before the call; the list
\* it returns is those rows in non-increasing order of timestamp.
Stamped(rows) ==
  [i \in 1..Len(rows) |->
     [columns |-> content(rows[i]), timestamp |-> rows[i].timestamp]]

C6_Matching(q) == SelectSeq(permanent, LAMBDA r : r.query = q)

C6_Descending(s) ==
  \A i, j \in 1..Len(s) : i < j => s[i].timestamp >= s[j].timestamp

\* a step in which the i-th history request in flight returns its products
C6_Returns(i) ==
  /\ hist' = returned(hist, i)
  /\ last'.op = History
  /\ last'.args = <<hist[i].query>>
  /\ last'.err = NoError

C6_HistoryIsCopyOfQuery ==
  [][\A i \in DOMAIN hist :
       /\ (Len(hist') = Len(hist) /\ hist[i].at = "select"
             /\ hist'[i].at = "commit")
            => /\ SameBag(hist'[i].records, C6_Matching(hist[i].query))
               /\ C6_Descending(hist'[i].records)
       /\ (C6_Returns(i) /\ hist[i].at = "select")
            => /\ C6_Matching(hist[i].query) = << >>
               /\ last'.ret = << >>
               /\ temp_hist' = << >>
       /\ (C6_Returns(i) /\ hist[i].at = "commit")
            => /\ SameBag(Stamped(temp_hist'), Stamped(hist[i].records))
               /\ last'.ret = products_of(hist[i].records)
               /\ C6_Descending(last'.ret)
               /\ permanent' = permanent]_vars

\* C7: only clear_database("app") deletes or changes a row of the permanent
\* table: a search appends rows after the ones it holds, and the history
\* call, the filters, get_all and clearing a scratch table leave it as it is.
C7_PermanentOnlyGrows ==
  [][\/ ClearApp
     \/ permanent' = permanent
     \/ /\ \E i \in DOMAIN searches : StepDone(i, "perm_commit")
        /\ Len(permanent') > Len(permanent)
        /\ SubSeq(permanent', 1, Len(permanent)) = permanent]_vars

\* the live table was cleared and the permanent rows are still there
C7_Witness ==
  /\ last.op = "clear_database"
  /\ last.args[1] = "temp_app"
  /\ last.err = NoError
  /\ temp_app = << >>
  /\ Len(permanent) = 2

\* C8: without deduplication a filter returns exactly the rows of its table
\* that pass every active threshold: price >= min_price when min_price > 0,
\* price <= max_price when max_price > 0, rating >= min_rating when
\* min_rating > 0; a row without price or rating is dropped when a
\* threshold on that field is active and kept when none is.
Positive(t) == t # None /\ t[1] > 0

C8_Passes(r, a) ==
  /\ Positive(a.min_price) => (r.price # None /\ r.price[1] >= a.min_price[1])
  /\ Positive(a.max_price) => (r.price # None /\ r.price[1] <= a.max_price[1])
  /\ Positive(a.min_rating) => (r.rating # None /\ r.rating[1] >= a.min_rating[1])

FilteredTable == IF last.op = "filter_app_temp_products" THEN temp_app ELSE temp_hist

C8_FilterReturnsRowsPassingThresholds ==
  (last.op \in FilterOps /\ ~last.args.duplicate)
    => SameBag(last.ret,
               products_of(SelectSeq(FilteredTable,
                                     LAMBDA r : C8_Passes(r, last.args))))

\* min_price 2 alone: the row without price and the row below 2 are
\* dropped, the row without rating is not
C8_Witness ==
  /\ last.op = "filter_app_temp_products"
  /\ last.args.min_price = Some(2)
  /\ last.args.max_price = Some(0)
  /\ last.args.min_rating = None
  /\ Len(temp_app) = 3
  /\ \E r \in Range(temp_app) : r.price = None
  /\ \E r \in Range(temp_app) : r.price = Some(1) /\ r.rating = None
  /\ Len(last.ret) = 1
  /\ last.ret[1].price = Some(3)

\* C9 as stated: a filter skips all three predicates only when the three
\* thresholds are all exactly zero.
C9_Original ==
  last.op \in FilterOps
    => (last.applied = {}
          <=> /\ last.args.min_price = Some(0)
              /\ last.args.max_price = Some(0)
              /\ last.args.min_rating = Some(0))

\* C9: a filter skips all three predicates exactly when none of the three
\* thresholds is greater than zero, each being null, zero or negative; when
\* one is greater than zero its predicate is applied.
C9_SkipsAllIffNoPositiveThreshold ==
  last.op \in FilterOps
    => /\ last.applied = {}
            <=> /\ ~Positive(last.args.min_price)
                /\ ~Positive(last.args.max_price)
                /\ ~Positive(last.args.min_rating)
       /\ Positive(last.args.min_price) <=> "price >= min_price" \in last.applied
       /\ Positive(last.args.max_price) <=> "price <= max_price" \in last.applied
       /\ Positive(last.args.min_rating) <=> "rating >= min_rating" \in last.applied

\* all three thresholds zero: nothing applied, every row returned
C9_Witness ==
  /\ last.op = "filter_hist_temp_products"
  /\ last.args.min_price = Some(0)
  /\ last.args.max_price = Some(0)
  /\ last.args.min_rating = Some(0)
  /\ last.applied = {}
  /\ Len(temp_hist) = MaxRows
  /\ Len(last.ret) = MaxRows

\* C10: sorted by price, rating, review_count or title, ascending, the rows
\* with a key are in non-decreasing order of it and the rows without come
\* after them all; descending, the rows with a key are in non-increasing
\* order of it.
C10_Key(p, column) == IF column = "title" THEN Some(p.title) ELSE p[column]

C10_SortedNullsLast ==
  (last.op \in FilterOps /\ last.args.sort_by \in SortColumns)
    => \A i, j \in 1..Len(last.ret) :
         i < j =>
           LET column == last.args.sort_by
               x == C10_Key(last.ret[i], column)
               y == C10_Key(last.ret[j], column)
           IN  IF last.args.order = "asc"
               THEN /\ x = None => y = None
                    /\ (x # None /\ y # None) => ~value_less(column, y[1], x[1])
               ELSE (x # None /\ y # None) => ~value_less(column, x[1], y[1])

\* ascending by rating: 2, 4, then the row without, stored in another order
C10_Witness ==
  /\ last.op = "filter_app_temp_products"
  /\ last.args.sort_by = "rating"
  /\ last.args.order = "asc"
  /\ Len(last.ret) = 3
  /\ last.ret[1].rating = Some(2)
  /\ last.ret[2].rating = Some(4)
  /\ last.ret[3].rating = None
  /\ temp_app[1].rating = None
  /\ temp_app[2].rating = Some(4)

\* C11: with duplicate = true filter_hist_temp_products returns one row for
\* each distinct (title, price) among the rows that pass the thresholds and
\* no two rows with the same title and price; with duplicate = false it
\* returns every row that passes.
TitlePrice(rows) == {<<rows[i].title, rows[i].price>> : i \in 1..Len(rows)}

C11_DedupOneRowPerTitlePrice ==
  last.op = "filter_hist_temp_products"
    => LET passing == products_of(SelectSeq(temp_hist,
                                            LAMBDA r : C8_Passes(r, last.args)))
       IN  IF last.args.duplicate
           THEN /\ TitlePrice(last.ret) = TitlePrice(passing)
                /\ Cardinality(TitlePrice(last.ret)) = Len(last.ret)
                /\ Range(last.ret) \subseteq Range(passing)
           ELSE SameBag(last.ret, passing)

\* three rows, two of them the same listing without price: two returned
C11_Witness ==
  /\ last.op = "filter_hist_temp_products"
  /\ last.args.duplicate
  /\ last.args.min_rating = Some(0)
  /\ Len(temp_hist) = 3
  /\ temp_hist[1].title = Title_B
  /\ temp_hist[1].price = None
  /\ temp_hist[2].title = Title_A
  /\ temp_hist[3].title = Title_B
  /\ Len(last.ret) = 2

ReadTable(call) ==
  IF call.op = "filter_app_temp_products" THEN "temp_app"
  ELSE IF call.op = "filter_hist_temp_products" THEN "temp_hist"
  ELSE IF call.args[1] = "live" THEN "temp_app"
  ELSE IF call.args[1] = "hist" THEN "temp_hist"
  ELSE "none"

Logs(call, line) == \E i \in 1..Len(call.log) : call.log[i].ev = line

\* the read that ended last was called right after clear_database(table)
\* returned
C13_AfterClear(table) ==
  /\ last.op \in ReadOps
  /\ last.after # None
  /\ last.after[1].op = "clear_database"
  /\ last.after[1].args = <<table>>
  /\ last.after[1].returned

C14_FailedClearRollsBackAndRaises ==
  [][(Ends("clear_database") /\ Logs(last', "error clearing"))
       => /\ last'.err # NoError
          /\ tables' = tables]_vars

\* a clear of the permanent table failed and its rows are there
C14_Witness ==
  /\ last.op = "clear_database"
  /\ last.args[1] = "app"
  /\ Logs(last, "error clearing")
  /\ last.err = Error("Exception", 0)
  /\ Len(permanent) = 2
  /\ temp_app # << >>

\* C15 as stated: a failure to clear the live table during a search
\* reaches the caller of scrape_amazon_products as an error.
C15_ClearFailureReachesCaller ==
  (last.op = Scrape /\ Logs(last, "error clearing")) => last.err # NoError

\* C16: when the insert of the copies fails in
\* search_and_copy_to_hist_temp_db the history table holds none of them
\* (the insert is rolled back, so the table is as it was before it), the
\* other tables are as before, and the exception reaches the caller.
C16_FailedCopyRollsBackAndRaises ==
  [][(Ends(History) /\ Logs(last', "error copying"))
       => /\ last'.err # NoError
          /\ last'.ret = << >>
          /\ temp_hist' = temp_hist
          /\ permanent' = permanent
          /\ temp_app' = temp_app]_vars

\* the copy of two permanent rows failed: the history table is empty
C16_Witness ==
  /\ last.op = History
  /\ Logs(last, "error copying")
  /\ last.err = Error("Exception", 0)
  /\ temp_hist = << >>
  /\ Len(SelectSeq(permanent, LAMBDA r : r.query = last.args[1])) = 2


\* C20: /search answers ScraperTimeoutError with 408,
\* ScraperConnectionError with 502, ScraperHTTPError of status 404 with 404
\* and of any other status with 502, ScraperParsingError with 500, a scrape
\* that returns no product with 404 and the detail "No products found for
\* the given query.", and a scrape that returns products with 200 and the
\* list.
C20_SearchStatusMapping ==
  last.op = Scrape
    => LET answer == search_products(last.err, last.ret)
           type == last.err.type
       IN  /\ type = "ScraperTimeoutError" => answer.status_code = 408
           /\ type = "ScraperConnectionError" => answer.status_code = 502
           /\ (type = "ScraperHTTPError" /\ last.err.status_code = 404)
                => answer.status_code = 404
           /\ (type = "ScraperHTTPError" /\ last.err.status_code # 404)
                => answer.status_code = 502
           /\ type = "ScraperParsingError" => answer.status_code = 500
           /\ (type = "none" /\ last.ret = << >>)
                => /\ answer.status_code = 404
                   /\ answer.detail = "No products found for the given query."
           /\ (type = "none" /\ last.ret # << >>)
                => /\ answer.status_code = 200
                   /\ answer.body = last.ret

\* page 1 answered 404 and /search answers 404
C20_Witness ==
  /\ last.op = Scrape
  /\ last.err = Error("ScraperHTTPError", 404)
  /\ search_products(last.err, last.ret).status_code = 404
  /\ search_products(last.err, last.ret).detail # "No products found for the given query."

\* C17: a Product built by extract_products_from_page has valid = true
\* exactly when its title, price, rating, review_count, product_url and
\* image_url are all truthy, a price, rating or review_count of 0 being
\* falsy; so a valid Product has none of the six null.
C17_NonZero(x) == x # None /\ x[1] # 0

C17_ValidIffAllTruthy ==
  last.op = "extract_products_from_page"
    => \A i \in 1..Len(last.ret) :
         LET p == last.ret[i]
             numbers == {p.price, p.rating, p.review_count}
         IN  /\ p.valid \in BOOLEAN
             /\ p.valid <=> /\ p.title # << >>
                            /\ \A x \in numbers : C17_NonZero(x)
                            /\ p.product_url # None
                            /\ p.image_url # None /\ p.image_url # Some("")
             /\ p.valid => /\ p.title # << >>
                           /\ \A x \in numbers : x # None
                           /\ p.product_url # None
                           /\ p.image_url # None

\* an item with everything and the price "0": a Product that is not valid
C17_Witness ==
  /\ last.op = "extract_products_from_page"
  /\ last.args[1].price = <<"0">>
  /\ last.args[1].rating = GoodRating
  /\ last.args[1].review_count = GoodCount
  /\ Len(last.ret) = 1
  /\ last.ret[1].price = Some(0)
  /\ last.ret[1].image_url # None
  /\ ~last.ret[1].valid

\* C18 as stated: every Product of the page parser has a price that is null
\* or >= 0, a rating that is null or within 0..5 and a review_count that is
\* null or >= 0, whatever the texts of the item.
C18_RangesHold ==
  last.op = "extract_products_from_page"
    => \A i \in 1..Len(last.ret) :
         LET p == last.ret[i]
         IN  /\ p.price = None \/ p.price[1] >= 0
             /\ p.rating = None
                  \/ (p.rating[1] >= 0 /\ p.rating[1] <= FixedPoint(5, 0))
             /\ p.review_count = None \/ p.review_count[1] >= 0

\* C19 as stated: _process_rating returns float(X.Y) for a text
\* "X.Y out of 5 stars" with X in 0..5 and null for every other text.
C19_Form(t) ==
  /\ Len(t) = 4
  /\ t[1] \in Digits /\ digit_value(t[1]) <= 5
  /\ t[2] = "."
  /\ t[3] \in Digits
  /\ t[4] = Stars

C19_Float(t) == FixedPoint(10 * digit_value(t[1]) + digit_value(t[3]), 1)

C19_Original ==
  last.op = "_process_rating"
    => /\ last.err = NoError
       /\ last.ret = IF C19_Form(last.args[1])
                     THEN Some(C19_Float(last.args[1])) ELSE None

\* C21 as stated: when the scraper raises an exception that is none of the
\* typed scraper errors, /search answers 500 with a detail that contains
\* "Error during scraping".
TypedErrors == {"ScraperTimeoutError", "ScraperConnectionError",
                "ScraperHTTPError", "ScraperParsingError"}

C21_UntypedErrorDetail ==
  (last.op = Scrape /\ last.err.type \notin TypedErrors \cup {"none"})
    => LET answer == search_products(last.err, last.ret)
           detail == detail_text(answer, scrape_message(last.err))
       IN  /\ answer.status_code = 500
           /\ \E i \in 1..Len(detail) : detail[i] = "Error during scraping"

\* C22 as stated: a page-1 response of status 500, 502, 503 or 504 is
\* retried at most 3 times, and when the status stays through the retries
\* the scrape raises ScraperHTTPError with that status.
C22_PersistentStatusRaisesHTTPError ==
  (/\ last.op = Scrape
   /\ Len(Gets(last.log)) = 1
   /\ Gets(last.log)[1].resp.kind = "status"
   /\ Gets(last.log)[1].resp.status \in {500, 502, 503, 504})
    => /\ requests_sent(Gets(last.log)[1].resp) - 1 <= 3
       /\ last.err = Error("ScraperHTTPError", Gets(last.log)[1].resp.status)

\* C23 as stated: extract_products_from_page returns one Product for each
\* result item that has a title and a link href, in the order of the page,
\* and none for the other items.
C23_HasTitleAndHref(raw) ==
  raw.title # << >> /\ raw.link # None /\ raw.link # Some("")

\* the products are those of the items kept, one for each and in their order
C23_ProductsOf(products, kept) ==
  /\ Len(products) = Len(kept)
  /\ \A i \in 1..Len(kept) :
       /\ products[i].title = kept[i].title
       /\ products[i].product_url
            = Some(<<"https://www.amazon.com", kept[i].link[1]>>)
       /\ products[i].image_url = kept[i].image

C23_Original ==
  last.op = "extract_products_from_page"
    => C23_ProductsOf(last.ret, SelectSeq(last.args, C23_HasTitleAndHref))

\* C23: extract_products_from_page returns one Product for each result
\* item that has a title and a link href and whose processing does not
\* raise (urljoin raises on an href it cannot split), in the order of the
\* page, and none for the other items; an item that is skipped or that
\* raises does not keep the items after it from being processed.
C23_Processed(raw) == C23_HasTitleAndHref(raw) /\ raw.link[1] \notin InvalidIPv6

C23_OneProductPerProcessedItem ==
  last.op = "extract_products_from_page"
    => C23_ProductsOf(last.ret, SelectSeq(last.args, C23_Processed))

\* an item without title, an item whose href makes urljoin raise, then an
\* item with title and href: its Product is the one returned
C23_Witness ==
  /\ last.op = "extract_products_from_page"
  /\ Len(last.args) = 3
  /\ last.args[1].title = << >>
  /\ C23_HasTitleAndHref(last.args[2])
  /\ last.args[2].link = Some("//[")
  /\ last.args[3].title = Title_B
  /\ Len(last.ret) = 1
  /\ last.ret[1].title = Title_B

\* C25 as stated: after the startup hook has run both scratch tables, live
\* and history, are empty, whatever rows the process before left in them.
C25_ScratchEmptyAfterStartup ==
  (last.op = "lifespan" /\ last.err = NoError)
    => temp_app = << >> /\ temp_hist = << >>

\* C26 as stated: between the requests for two consecutive pages of a
\* scrape there is the inter-page delay, also when the earlier page failed
\* and was skipped, and no delay follows the last page.
C26_DelayBetweenConsecutivePages ==
  (last.op = Scrape /\ last.err = NoError)
    => LET log == SelectSeq(last.log, LAMBDA e : e.ev \in {"get", "sleep"})
       IN  \A i \in 1..Len(log) :
             log[i].ev = "get"
               => IF log[i].page < last.args[2]
                  THEN i < Len(log) /\ log[i + 1].ev = "sleep"
                  ELSE i = Len(log)

\* C29 as stated: after a search returned N products, get_all of the live
\* table returns N products, also when a step of the write failed and was
\* swallowed.
C29_LiveHoldsReturnedProducts ==
  [][(/\ Quiet
      /\ last.op = Scrape
      /\ last.err = NoError
      /\ get_all_temp_products("live", FALSE))
       => Len(last'.ret) = Len(last.ret)]_vars

\* C30: a page whose fetch or parse failed adds no product: at every point
\* of a scrape the number of products collected, with those of the page
\* being parsed, built or still to build, is the number of items with
\* title and link on the pages fetched and parsed so far, and so is the
\* number of products the scrape returns.
C30_Count(log) ==
  Len(Flatten([i \in 1..Len(Gets(log)) |->
                 IF Gets(log)[i].resp.kind = "page"
                 THEN SelectSeq(Gets(log)[i].resp.items,
                                LAMBDA it : it.title # << >> /\ it.link # None)
                 ELSE << >>]))

C30_FailedPageAddsNothing ==
  /\ \A i \in DOMAIN searches :
       Len(searches[i].all_products) + Len(searches[i].page_products)
         + Len(extract_products_from_page(searches[i].pending, 0))
         = C30_Count(searches[i].events)
  /\ (last.op = Scrape /\ last.err = NoError)
       => Len(last.ret) = C30_Count(last.log)

\* page 1 gave two products, page 2 failed, page 3 had no item: two returned
C30_Witness ==
  /\ last.op = Scrape
  /\ last.err = NoError
  /\ last.args[2] = 3
  /\ Len(Gets(last.log)) = 3
  /\ Gets(last.log)[1].resp.kind = "page"
  /\ Len(Gets(last.log)[1].resp.items) = 2
  /\ Gets(last.log)[2].resp.kind = "skipped"
  /\ Gets(last.log)[3].resp = Response("page", 200, << >>)
  /\ Len(last.ret) = 2

\* C24 as stated: when two searches run at the same time in one process,
\* the clear and the write of one on the live table are not interleaved
\* with those of the other, so once both have saved the live table holds
\* the rows of exactly one of the two.
C24_RowsOf(t) ==
  [i \in 1..Len(threads[t].all_products) |->
     ProductRow(threads[t].query, threads[t].all_products[i])]

C24_LiveHoldsOneSearch ==
  (\A t \in Threads : threads[t].at = "done" /\ threads[t].saved)
    => \E t \in Threads :
         [i \in 1..Len(temp_app) |-> content(temp_app[i])] = C24_RowsOf(t)

\* C27 as stated: sort_products returns a permutation of its input, in
\* non-decreasing order of the chosen key when ascending is true and in
\* non-increasing order when ascending is false.
C27_SortedInChosenDirection ==
  (last.op = "sort_products" /\ last.err = NoError)
    => /\ SameBag(last.ret, last.args.products)
       /\ \A i, j \in 1..Len(last.ret) :
            LET x == last.ret[i][last.args.sort_by]
                y == last.ret[j][last.args.sort_by]
            IN  (i < j /\ x # None /\ y # None)
                  => IF last.args.ascending THEN x[1] <= y[1] ELSE x[1] >= y[1]

\* C28 as stated: for every list of products and all thresholds that are
\* not negative, filter_products keeps exactly the products that
\* filter_app_temp_products returns when the products are the rows of the
\* live table.
C28_SqlArgs(args) ==
  [min_price |-> args.min_price, max_price |-> args.max_price,
   min_rating |-> args.min_rating, sort_by |-> "price", order |-> "asc",
   duplicate |-> FALSE]

C28_SameAsSqlFilter ==
  (/\ last.op = "filter_products"
   /\ \A t \in {last.args.min_price, last.args.max_price, last.args.min_rating} :
        t # None /\ t[1] >= 0)
    => LET rows == new_temp_app_records(<< >>, last.args.products, "q1",
                                        readings(0, 2 * Len(last.args.products)))
           sql == products_of(filter_app_statement(rows, C28_SqlArgs(last.args)))
       IN  /\ last.err = NoError
           /\ SameBag(untimed(last.ret), untimed(sql))

====
